---- MODULE Spec2Model ----
(***************************************************************************)
(* WalletIntel: the normalisation pipeline of Finance (src/app.py) and the *)
(* top-N grouping of Graph (src/graphs.py).                                *)
(*                                                                         *)
(* A cell of a table is [k, n, s]: k is the kind of the value ("null" for  *)
(* NaN/None/NaT/<NA>, "num" for a number, "str" for text, "dt" for a       *)
(* date-time), n its number (or the day number of a date-time) and s its   *)
(* text, a tuple of one-character strings so that strip, parse and         *)
(* lexicographic order are computed, not assumed.                          *)
(***************************************************************************)
EXTENDS Integers, Sequences, FiniteSets, TLC

VARIABLES
    sheet,    \* the sheet behind Configurations.URL, as read_excel returns it
    pc,       \* the stage Finance.run has completed, or "raised"
    raw,      \* self.raw
    df,       \* self.df
    origin,   \* history: origin[k] is the sheet row that df[k] derives from
    err,      \* the exception that ended run, if any
    pnl,      \* the last result of monthly_profit_and_loss
    exp_df,   \* the entries handed to expense_pie_topN
    topN,     \* its topN
    pie,      \* the labels and values of its df_plot
    cmp       \* the last call of monthly_expense_compare: arguments and outcome

vars == <<sheet, pc, raw, df, origin, err, pnl, exp_df, topN, pie, cmp>>

(* ----------------------------- bounds --------------------------------- *)
MaxRows == 2
MaxEntries == 4
MaxTopN == 3

(* ----------------------------- cells ---------------------------------- *)
Null == [k |-> "null", n |-> 0, s |-> <<>>]
Num(x) == [k |-> "num", n |-> x, s |-> <<>>]
Str(t) == [k |-> "str", n |-> 0, s |-> t]
Dt(d) == [k |-> "dt", n |-> d, s |-> <<>>]
IsNull(c) == c.k = "null"

(* The characters the modelled texts use, in ASCII order. *)
Ascii == <<" ", "-", "/", "0", "1", "2", "3", "4", "5", "6", "7", "8", "9",
           "A", "B", "E", "F", "I", "N", "O", "R", "S", "T",
           "a", "b", "c", "d", "e", "f", "h", "m", "n", "o", "p", "r", "s", "t", "u", "x">>
Code(c) == CHOOSE i \in 1..Len(Ascii) : Ascii[i] = c
IsDigit(c) == Code(c) >= Code("0") /\ Code(c) <= Code("9")
DigitVal(c) == Code(c) - Code("0")
IsSpace(c) == c = " "

(* str.lower() on one character, for the letters of the labels. *)
LowerChar(c) ==
    CASE c = "T" -> "t" [] c = "R" -> "r" [] c = "A" -> "a" [] c = "N" -> "n"
      [] c = "S" -> "s" [] c = "F" -> "f" [] c = "E" -> "e" [] c = "I" -> "i"
      [] c = "O" -> "o" [] c = "B" -> "b" [] OTHER -> c
Lower(t) == [i \in 1..Len(t) |-> LowerChar(t[i])]

(* lexicographic order of two texts: -1, 0, 1 *)
RECURSIVE CmpText(_, _)
CmpText(a, b) ==
    IF a = <<>> /\ b = <<>> THEN 0
    ELSE IF a = <<>> THEN -1
    ELSE IF b = <<>> THEN 1
    ELSE IF Code(Head(a)) < Code(Head(b)) THEN -1
    ELSE IF Code(Head(a)) > Code(Head(b)) THEN 1
    ELSE CmpText(Tail(a), Tail(b))

(* str.strip(): leading and trailing whitespace removed *)
RECURSIVE LStrip(_)
LStrip(t) == IF t # <<>> /\ IsSpace(Head(t)) THEN LStrip(Tail(t)) ELSE t
RECURSIVE RStrip(_)
RStrip(t) ==
    IF t # <<>> /\ IsSpace(t[Len(t)]) THEN RStrip(SubSeq(t, 1, Len(t) - 1)) ELSE t
Strip(t) == RStrip(LStrip(t))

(* ----------------------------- dates ---------------------------------- *)
(* A date-time is a day number, monotone in (year, month, day). *)
MkDate(y, m, d) == ((y - 2000) * 12 + (m - 1)) * 31 + (d - 1)
YearOf(d) == 2000 + (d \div 372)
MonthOf(d) == ((d \div 31) % 12) + 1

(* ----------------------------- columns -------------------------------- *)
AMOUNT_COLS == <<"Income Amount", "Expense Amount", "Transfer Amount",
                 "Transfer-In Amount", "Transfer-Out Amount">>
ACCOUNT_COLS == <<"Income Account", "Expense Source", "Transfer Account",
                  "Transfer-In Account", "Transfer-Out Source">>
SOURCE_COLS == <<"Income Source", "Expense Account", "Transfer Source",
                 "Transfer-In Source", "Transfer-Out Account">>
DESC_COLS == <<"Income Note", "Expense Note", "Transfer Note",
               "Transfer-In Note", "Transfer-Out Note">>
Range(f) == {f[i] : i \in DOMAIN f}
FamilyCols == Range(AMOUNT_COLS) \cup Range(ACCOUNT_COLS) \cup Range(SOURCE_COLS)
                \cup Range(DESC_COLS)
RawCols == {"Timestamp", "Nature of Record"} \cup FamilyCols
LedgerCols == {"Timestamp", "Nature of Record", "Amount", "Source", "Account", "Description"}

(* ----------------------------- texts ---------------------------------- *)
T_Transfer == <<"T", "r", "a", "n", "s", "f", "e", "r">>
T_TransferOut == T_Transfer \o <<"-", "O", "u", "t">>
T_TransferIn == T_Transfer \o <<"-", "I", "n">>
T_Income == <<"I", "n", "c", "o", "m", "e">>
T_Expense == <<"E", "x", "p", "e", "n", "s", "e">>
T_Others == <<"O", "t", "h", "e", "r", "s">>
T_Padded == <<" ">> \o T_Transfer \o <<" ">>
T_LowerCase == <<"t", "r", "a", "n", "s", "f", "e", "r">>
T_UpperCase == <<"T", "R", "A", "N", "S", "F", "E", "R">>
T_Bonus == <<"B", "o", "n", "u", "s">>
T_NotADate == <<"n", "o", "t", "-", "a", "-", "d", "a", "t", "e">>
T_IsoDate == <<"2", "0", "2", "5", "-", "0", "2", "-", "1", "0">>
T_UsJan2025 == <<"0", "1", "/", "1", "5", "/", "2", "0", "2", "5">>
T_UsDec2024 == <<"1", "2", "/", "0", "1", "/", "2", "0", "2", "4">>
T_abc == <<"a", "b", "c">>
T_7 == <<"7">>
(* the label of each column group, in the order of the *_COLS lists *)
GroupLabel == <<T_Income, T_Expense, T_Transfer, T_TransferIn, T_TransferOut>>
CanonicalLabels == {T_Income, T_Expense, T_TransferIn, T_TransferOut}

(* ----------------------------- coercions ------------------------------ *)
(* pd.to_numeric on one text: an unsigned decimal integer, else NaN. *)
RECURSIVE DecimalValue(_)
DecimalValue(t) ==
    IF t = <<>> THEN 0 ELSE 10 * DecimalValue(SubSeq(t, 1, Len(t) - 1)) + DigitVal(t[Len(t)])
ParseNumber(t) ==
    LET u == Strip(t)
    IN  IF u # <<>> /\ \A i \in 1..Len(u) : IsDigit(u[i]) THEN Num(DecimalValue(u)) ELSE Null
(* pd.to_datetime on a column of texts: the format is guessed from the    *)
(* first non-null element, YYYY-MM-DD or MM/DD/YYYY, and every element is *)
(* parsed with it; when no format can be guessed each element is parsed   *)
(* on its own. What does not parse is NaT.                                *)
ValidDate(y, m, d) ==
    /\ Len(y) = 4 /\ Len(m) = 2 /\ Len(d) = 2
    /\ \A i \in 1..4 : IsDigit(y[i])
    /\ \A i \in 1..2 : IsDigit(m[i]) /\ IsDigit(d[i])
    /\ DecimalValue(m) \in 1..12
    /\ DecimalValue(d) \in 1..31
IsIsoDate(t) ==
    /\ Len(t) = 10 /\ t[5] = "-" /\ t[8] = "-"
    /\ ValidDate(SubSeq(t, 1, 4), SubSeq(t, 6, 7), SubSeq(t, 9, 10))
IsUsDate(t) ==
    /\ Len(t) = 10 /\ t[3] = "/" /\ t[6] = "/"
    /\ ValidDate(SubSeq(t, 7, 10), SubSeq(t, 1, 2), SubSeq(t, 4, 5))
GuessFormat(t) ==
    IF IsIsoDate(t) THEN "%Y-%m-%d" ELSE IF IsUsDate(t) THEN "%m/%d/%Y" ELSE "none"
ParseDatetime(fmt, t) ==
    IF fmt \in {"%Y-%m-%d", "none"} /\ IsIsoDate(t)
    THEN Dt(MkDate(DecimalValue(SubSeq(t, 1, 4)), DecimalValue(SubSeq(t, 6, 7)),
                   DecimalValue(SubSeq(t, 9, 10))))
    ELSE IF fmt \in {"%m/%d/%Y", "none"} /\ IsUsDate(t)
    THEN Dt(MkDate(DecimalValue(SubSeq(t, 7, 10)), DecimalValue(SubSeq(t, 1, 2)),
                   DecimalValue(SubSeq(t, 4, 5))))
    ELSE Null
(* errors="coerce": whatever cannot be converted becomes null (an Amount   *)
(* is a number, text or null, a Timestamp a date-time, text or null).      *)
ToNumeric(c) ==
    CASE c.k = "num" -> c [] c.k = "str" -> ParseNumber(c.s) [] OTHER -> Null
ToDatetime(fmt, c) ==
    CASE c.k = "dt" -> c [] c.k = "str" -> ParseDatetime(fmt, c.s) [] OTHER -> Null
(* str(n) of an integer *)
RECURSIVE DecimalText(_)
DecimalText(x) ==
    IF x < 0 THEN <<"-">> \o DecimalText(0 - x)
    ELSE IF x < 10 THEN <<Ascii[Code("0") + x]>>
    ELSE DecimalText(x \div 10) \o <<Ascii[Code("0") + (x % 10)]>>
(* astype("string"): text stays text, null stays <NA>, a number becomes its text *)
AsString(c) == IF c.k = "num" THEN Str(DecimalText(c.n)) ELSE c
(* fillna("").astype(str) *)
FillEmpty(c) == IF IsNull(c) THEN Str(<<>>) ELSE c

(* unary minus on one cell of a numeric or object column; text raises *)
Neg(c) == IF c.k = "num" THEN Num(-c.n) ELSE c
CanNeg(c) == c.k \in {"num", "null"}

(* ----------------------------- raw tables ----------------------------- *)
(* The sheet read by _load_raw: a sequence of rows, each a function from   *)
(* the column names to cells.                                              *)
D1 == MkDate(2025, 1, 15)
D2 == MkDate(2025, 2, 10)
D3 == MkDate(2025, 1, 20)
AccA == Str(<<"A">>)
AccB == Str(<<"B">>)
SrcS == Str(<<"S">>)
SrcT == Str(<<"T">>)
NoteN == Str(<<"n">>)
NoteM == Str(<<"m">>)

Base(ts, nat) ==
    [c \in RawCols |-> IF c = "Timestamp" THEN ts
                       ELSE IF c = "Nature of Record" THEN nat ELSE Null]
Populate(row, i, amt, acc, src, note) ==
    [row EXCEPT ![AMOUNT_COLS[i]] = amt, ![ACCOUNT_COLS[i]] = acc,
                ![SOURCE_COLS[i]] = src, ![DESC_COLS[i]] = note]

(* rows that respect the input contract: the one group of the label is populated *)
ContractRow(i, a, ts, acc) == Populate(Base(ts, Str(GroupLabel[i])), i, Num(a), acc, SrcS, Null)
ContractRows ==
    { ContractRow(1, 1, Dt(D1), AccA), ContractRow(1, 2, Dt(D3), AccB),
      ContractRow(2, 1, Dt(D2), AccA), ContractRow(2, 2, Dt(D1), AccB),
      ContractRow(3, 1, Dt(D1), AccA), ContractRow(3, 2, Dt(D2), AccB),
      ContractRow(4, 1, Dt(D3), AccA), ContractRow(5, 2, Dt(D2), AccB) }
(* a transfer group under other spellings of the label, or none *)
LabelRow(nat, ts) == Populate(Base(ts, nat), 3, Num(1), AccA, SrcS, NoteN)
LabelRows ==
    { LabelRow(Str(T_Padded), Dt(D3)), LabelRow(Str(T_LowerCase), Dt(D1)),
      LabelRow(Str(T_UpperCase), Dt(D2)), LabelRow(Str(T_Bonus), Dt(D3)),
      LabelRow(Null, Dt(D2)) }
(* malformed cell contents *)
TextAmountRow(i, txt, ts) == Populate(Base(ts, Str(GroupLabel[i])), i, Str(txt), AccA, SrcS, Null)
CellRows ==
    { TextAmountRow(1, T_abc, Dt(D3)), TextAmountRow(2, T_abc, Dt(D1)),
      TextAmountRow(3, T_abc, Dt(D2)), TextAmountRow(5, T_abc, Dt(D3)),
      TextAmountRow(1, T_7, Dt(D2)) }
    \cup { Populate(Base(ts, Str(T_Income)), 1, Num(1), AccA, SrcS, NoteN) :
             ts \in {Str(T_NotADate), Str(T_IsoDate), Str(T_UsJan2025),
                     Str(T_UsDec2024), Null} }
(* two neighbouring groups populated: group i holds (1, A, S, n) or, when   *)
(* it is not full, A alone, and group i + 1 holds (2, B, T, m); the label   *)
(* is the one of group i; or no group is populated                          *)
MultiRow(i, full, ts) ==
    Populate(Populate(Base(ts, Str(GroupLabel[i])), i + 1, Num(2), AccB, SrcT, NoteM),
             i, IF full THEN Num(1) ELSE Null, AccA, IF full THEN SrcS ELSE Null,
             IF full THEN NoteN ELSE Null)
MultiRows ==
    { MultiRow(1, TRUE, Dt(D1)), MultiRow(2, TRUE, Dt(D2)), MultiRow(3, TRUE, Dt(D3)),
      MultiRow(4, TRUE, Dt(D2)), MultiRow(1, FALSE, Dt(D3)), MultiRow(4, FALSE, Dt(D1)),
      Base(Dt(D2), Str(T_Income)) }
Rows == ContractRows \cup LabelRows \cup CellRows \cup MultiRows
Tables == UNION { [1..n -> Rows] : n \in 0..MaxRows }

(* ----------------------------- _combine_columns ----------------------- *)
Min(S) == CHOOSE x \in S : \A y \in S : x <= y
(* bfill(axis=1): every cell takes the first non-null at or after it *)
Bfill(v) ==
    [i \in 1..Len(v) |->
        LET later == {j \in i..Len(v) : ~IsNull(v[j])}
        IN  IF later = {} THEN Null ELSE v[Min(later)]]
(* raw[cols].bfill(axis=1).iloc[:, 0] *)
(* the last non-null instead of the first (ffill and the last column) *)
CoalesceLast(row, cols) ==
    LET nn == {i \in 1..Len(cols) : ~IsNull(row[cols[i]])}
    IN  IF nn = {} THEN Null ELSE row[cols[CHOOSE i \in nn : \A j \in nn : j <= i]]
Coalesce(row, cols) == Bfill([i \in 1..Len(cols) |-> row[cols[i]]])[1]
(* flip sign for Expense and Transfer-Out *)
SignFlipExpenseOnly(row) == [row EXCEPT !["Expense Amount"] = Neg(@)]
SignFlip(row) ==
    [row EXCEPT !["Expense Amount"] = Neg(@), !["Transfer-Out Amount"] = Neg(@)]
SignFlipRaises(t) ==
    \E i \in 1..Len(t) :
        ~CanNeg(t[i]["Expense Amount"]) \/ ~CanNeg(t[i]["Transfer-Out Amount"])
CombineRow(row) ==
    LET r == SignFlip(row)
    IN  [c \in LedgerCols |->
            CASE c = "Amount" -> Coalesce(r, AMOUNT_COLS)
              [] c = "Account" -> Coalesce(r, ACCOUNT_COLS)
              [] c = "Source" -> Coalesce(r, SOURCE_COLS)
              [] c = "Description" -> Coalesce(r, DESC_COLS)
              [] OTHER -> r[c]]

(* ----------------------------- _split_transfers ----------------------- *)
(* raw["Nature of Record"].str.strip().fillna("") == "Transfer" *)
IsTransferNoStrip(row) ==
    LET l == row["Nature of Record"]
    IN  l.k = "str" /\ l.s = T_Transfer
IsTransfer(row) ==
    LET l == row["Nature of Record"]
    IN  l.k = "str" /\ Strip(l.s) = T_Transfer
NotTransfer(row) == ~IsTransfer(row)
(* .str on a column with no text in it (every label null) is an AttributeError *)
StrAccessorRaises(t) ==
    Len(t) > 0 /\ \A i \in 1..Len(t) : t[i]["Nature of Record"].k # "str"
TransferNegRaises(t) ==
    \E i \in 1..Len(t) : IsTransfer(t[i]) /\ ~CanNeg(t[i]["Amount"])
OutLegNoNeg(row) ==
    [row EXCEPT !["Source"] = row["Account"],
                !["Account"] = row["Source"],
                !["Nature of Record"] = Str(T_TransferOut)]
OutLegAliased(row) ==
    [row EXCEPT !["Amount"] = Neg(@),
                !["Source"] = row["Account"],
                !["Nature of Record"] = Str(T_TransferOut)]
OutLeg(row) ==
    [row EXCEPT !["Amount"] = Neg(@),
                !["Source"] = row["Account"],
                !["Account"] = row["Source"],
                !["Nature of Record"] = Str(T_TransferOut)]
InLegKeepsLabel(row) == row
InLeg(row) == [row EXCEPT !["Nature of Record"] = Str(T_TransferIn)]
SplitRowsMissingInLeg(t) ==
    LET transfer_rows == SelectSeq(t, IsTransfer)
        non_transfer_rows == SelectSeq(t, NotTransfer)
        transfer_expense == [i \in 1..Len(transfer_rows) |-> OutLeg(transfer_rows[i])]
    IN  non_transfer_rows \o transfer_expense
SplitRows(t) ==
    LET transfer_rows == SelectSeq(t, IsTransfer)
        non_transfer_rows == SelectSeq(t, NotTransfer)
        transfer_expense == [i \in 1..Len(transfer_rows) |-> OutLeg(transfer_rows[i])]
        transfer_income == [i \in 1..Len(transfer_rows) |-> InLeg(transfer_rows[i])]
    IN  non_transfer_rows \o (transfer_expense \o transfer_income)
(* the sheet row behind each row of SplitRows(t) *)
SplitOrigin(t) ==
    LET idx == [i \in 1..Len(t) |-> i]
        transfer_idx == SelectSeq(idx, LAMBDA i : IsTransfer(t[i]))
        non_transfer_idx == SelectSeq(idx, LAMBDA i : NotTransfer(t[i]))
    IN  non_transfer_idx \o (transfer_idx \o transfer_idx)

(* ----------------------------- _finalise_schema ----------------------- *)
(* sort_values("Timestamp"): nulls last; comparing text with a date-time   *)
(* is a TypeError; the order among equal keys is not fixed (quicksort).    *)
SortRaises(t) ==
    \E i, j \in 1..Len(t) : t[i]["Timestamp"].k = "str" /\ t[j]["Timestamp"].k = "dt"
KeyLE(a, b) ==
    CASE IsNull(b) -> TRUE
      [] IsNull(a) -> FALSE
      [] a.k = "str" /\ b.k = "str" -> CmpText(a.s, b.s) <= 0
      [] OTHER -> a.n <= b.n
SortedPerms(t) ==
    { p \in Permutations(1..Len(t)) :
        \A i, j \in 1..Len(t) : i < j => KeyLE(t[p[i]]["Timestamp"], t[p[j]]["Timestamp"]) }

(* ----------------------------- _enforce_types ------------------------- *)
(* the format pd.to_datetime guesses for the Timestamp column of t *)
TimestampFormat(t) ==
    LET filled == {i \in 1..Len(t) : ~IsNull(t[i]["Timestamp"])}
    IN  IF filled # {} /\ t[Min(filled)]["Timestamp"].k = "str"
        THEN GuessFormat(t[Min(filled)]["Timestamp"].s) ELSE "none"
EnforceRow(fmt, row) ==
    [c \in LedgerCols |->
        CASE c = "Timestamp" -> ToDatetime(fmt, row[c])
          [] c = "Amount" -> ToNumeric(row[c])
          [] c = "Description" -> FillEmpty(AsString(row[c]))
          [] OTHER -> AsString(row[c])]

(* ----------------------------- monthly_profit_and_loss ---------------- *)
RECURSIVE SumAmount(_)
(* Series.sum(): NaN is skipped, the empty sum is 0 *)
SumAmount(rows) ==
    IF rows = <<>> THEN 0
    ELSE (IF Head(rows)["Amount"].k = "num" THEN Head(rows)["Amount"].n ELSE 0)
         + SumAmount(Tail(rows))
InMonthNoYear(row, month, year) ==
    /\ row["Timestamp"].k = "dt"
    /\ MonthOf(row["Timestamp"].n) = month
InMonth(row, month, year) ==
    /\ row["Timestamp"].k = "dt"
    /\ YearOf(row["Timestamp"].n) = year
    /\ MonthOf(row["Timestamp"].n) = month
(* pivot_table(index=[Nature of Record, Account], values=Amount, aggfunc=sum,  *)
(* fill_value=0.0): one entry per key pair observed in df_m, null keys dropped *)
PivotSum(df_m) ==
    LET keyed == SelectSeq(df_m, LAMBDA r : ~IsNull(r["Nature of Record"]) /\ ~IsNull(r["Account"]))
        keys == { <<keyed[i]["Nature of Record"].s, keyed[i]["Account"].s>> : i \in 1..Len(keyed) }
    IN  { [nature |-> key[1], account |-> key[2],
           total |-> SumAmount(SelectSeq(keyed, LAMBDA r :
                        r["Nature of Record"].s = key[1] /\ r["Account"].s = key[2]))] :
          key \in keys }
ProfitAndLoss(ledger, month, year) ==
    PivotSum(SelectSeq(ledger, LAMBDA r : InMonth(r, month, year)))
Queries == {<<1, 2025>>, <<2, 2025>>, <<2, 2024>>}
NoPnl == [asked |-> FALSE, month |-> 0, year |-> 0, table |-> {}]

(* ----------------------------- expense_pie_topN ----------------------- *)
Abs(x) == IF x < 0 THEN -x ELSE x
(* groupby("Source")["Amount"].sum().abs(): null Sources are dropped *)
SourcesOf(entries) ==
    { entries[i]["Source"].s : i \in {j \in 1..Len(entries) : ~IsNull(entries[j]["Source"])} }
GroupValue(entries, src) ==
    Abs(SumAmount(SelectSeq(entries, LAMBDA r :
            ~IsNull(r["Source"]) /\ r["Source"].s = src)))
(* sort_values(ascending=False): every descending order of the groups *)
DescendingOrders(entries) ==
    LET gs == SourcesOf(entries)
        n == Cardinality(gs)
    IN  { o \in [1..n -> gs] :
            /\ \A i, j \in 1..n : i # j => o[i] # o[j]
            /\ \A i, j \in 1..n : i < j => GroupValue(entries, o[i]) >= GroupValue(entries, o[j]) }
RECURSIVE SumSeq(_)
SumSeq(s) == IF s = <<>> THEN 0 ELSE Head(s) + SumSeq(Tail(s))
(* s.head(n) and s.iloc[n:], for n >= 0 *)
HeadN(s, n) == SubSeq(s, 1, IF n < Len(s) THEN n ELSE Len(s))
FromN(s, n) == SubSeq(s, (IF n < Len(s) THEN n ELSE Len(s)) + 1, Len(s))
(* data.head(topN), data.iloc[topN:].sum() and the "Others" row *)
TopNPlotOthersAlways(entries, order, n) ==
    LET data == [i \in 1..Len(order) |-> GroupValue(entries, order[i])]
    IN  [labels |-> Append(HeadN(order, n), T_Others),
         values |-> Append(HeadN(data, n), SumSeq(FromN(data, n)))]
TopNPlot(entries, order, n) ==
    LET data == [i \in 1..Len(order) |-> GroupValue(entries, order[i])]
        top == HeadN(order, n)
        topv == HeadN(data, n)
        others_sum == SumSeq(FromN(data, n))
    IN  IF others_sum > 0
        THEN [labels |-> Append(top, T_Others), values |-> Append(topv, others_sum)]
        ELSE [labels |-> top, values |-> topv]
NoPie == [labels |-> <<>>, values |-> <<>>]
(* pre-filtered ledger entries: Expense rows, of which the pie reads Source and Amount *)
Entry(src, amt) ==
    [c \in LedgerCols |->
        CASE c = "Timestamp" -> Dt(D1)
          [] c = "Nature of Record" -> Str(T_Expense)
          [] c = "Amount" -> amt
          [] c = "Source" -> src
          [] c = "Account" -> AccA
          [] OTHER -> Str(<<>>)]
Entries ==
    { Entry(src, amt) : src \in {SrcS, SrcT, AccA, Null}, amt \in {Num(-2), Num(1)} }
    \cup { Entry(SrcS, Null) }
EntryLists == UNION { [1..n -> Entries] : n \in 0..MaxEntries }

(* ----------------------------- the pipeline --------------------------- *)
(* the attributes of a Finance object: the class body and __init__ *)
FinanceAttrs ==
    {"AMOUNT_COLS", "ACCOUNT_COLS", "SOURCE_COLS", "DESC_COLS", "__init__", "run",
     "monthly_profit_and_loss", "_load_raw", "_combine_columns", "_split_transfers",
     "_finalise_schema", "_enforce_types", "monthly_expense_compare", "raw", "df"}
HasAttr(name) == name \in FinanceAttrs
(* the (year, month) periods asked of monthly_expense_compare *)
PeriodLists ==
    { <<>>, <<<<2025, 1>>>>, <<<<2025, 1>>, <<2025, 2>>>>, <<<<2025, 2>>, <<2024, 2>>>> }
(* f"{year}-{month:02d}" *)
PeriodLabel(p) ==
    DecimalText(p[1]) \o <<"-">> \o (IF p[2] < 10 THEN <<"0">> ELSE <<>>) \o DecimalText(p[2])
NoCompare == [called |-> FALSE, periods |-> <<>>, topN |-> 0, rows |-> <<>>, err |-> "none"]

Init ==
    /\ sheet \in Tables
    /\ pc = "init"
    /\ raw = <<>>
    /\ df = <<>>
    /\ origin = <<>>
    /\ err = "none"
    /\ pnl = NoPnl
    /\ exp_df = <<>>
    /\ topN = 0
    /\ pie = NoPie
    /\ cmp = NoCompare

Raise(e) ==
    /\ pc' = "raised"
    /\ err' = e

(* _load_raw *)
LoadRaw ==
    /\ pc = "init"
    /\ raw' = sheet
    /\ pc' = "loaded"
    /\ UNCHANGED <<sheet, df, origin, err, pnl, exp_df, topN, pie, cmp>>

(* _combine_columns *)
CombineColumns ==
    /\ pc = "loaded"
    /\ IF SignFlipRaises(raw)
       THEN Raise("TypeError") /\ UNCHANGED raw
       ELSE raw' = [i \in 1..Len(raw) |-> CombineRow(raw[i])] /\ pc' = "combined" /\ UNCHANGED err
    /\ UNCHANGED <<sheet, df, origin, pnl, exp_df, topN, pie, cmp>>

(* _split_transfers *)
SplitTransfers ==
    /\ pc = "combined"
    /\ IF StrAccessorRaises(raw)
       THEN Raise("AttributeError") /\ UNCHANGED <<df, origin>>
       ELSE IF TransferNegRaises(raw)
       THEN Raise("TypeError") /\ UNCHANGED <<df, origin>>
       ELSE /\ df' = SplitRows(raw)
            /\ origin' = SplitOrigin(raw)
            /\ pc' = "split"
            /\ UNCHANGED err
    /\ UNCHANGED <<sheet, raw, pnl, exp_df, topN, pie, cmp>>

(* _finalise_schema *)
FinaliseSchema ==
    /\ pc = "split"
    /\ IF SortRaises(df)
       THEN Raise("TypeError") /\ UNCHANGED <<df, origin>>
       ELSE \E p \in SortedPerms(df) :
                /\ df' = [i \in 1..Len(df) |-> df[p[i]]]
                /\ origin' = [i \in 1..Len(df) |-> origin[p[i]]]
                /\ pc' = "finalised"
                /\ UNCHANGED err
    /\ UNCHANGED <<sheet, raw, pnl, exp_df, topN, pie, cmp>>

(* _enforce_types; run returns self.df *)
EnforceTypes ==
    /\ pc = "finalised"
    /\ df' = [i \in 1..Len(df) |-> EnforceRow(TimestampFormat(df), df[i])]
    /\ pc' = "done"
    /\ UNCHANGED <<sheet, raw, origin, err, pnl, exp_df, topN, pie, cmp>>

(* monthly_profit_and_loss(month, year) on the ledger run returned *)
MonthlyProfitAndLoss ==
    /\ pc = "done"
    /\ \E q \in Queries :
          pnl' = [asked |-> TRUE, month |-> q[1], year |-> q[2],
                  table |-> ProfitAndLoss(df, q[1], q[2])]
    /\ UNCHANGED <<sheet, pc, raw, df, origin, err, exp_df, topN, pie, cmp>>

Next ==
    \/ LoadRaw
    \/ CombineColumns
    \/ SplitTransfers
    \/ FinaliseSchema
    \/ EnforceTypes
    \/ MonthlyProfitAndLoss

Spec == Init /\ [][Next]_vars

(* ----------------------------- monthly_expense_compare ---------------- *)
(* monthly_expense_compare(periods, topN) on the Finance object whose run  *)
(* has returned, up to df_plot. The title of the chart reads periods[0],   *)
(* which an empty list does not have; the first pass of the loop looks up  *)
(* self.monthly_expense, which is an AttributeError unless Finance has it. *)
MonthlyExpenseCompare ==
    /\ pc = "done"
    /\ \E ps \in PeriodLists, n \in 0..MaxTopN :
          cmp' = [called |-> TRUE, periods |-> ps, topN |-> n, rows |-> <<>>,
                  err |-> CASE ps = <<>> -> "IndexError"
                            [] ps # <<>> /\ ~HasAttr("monthly_expense") -> "AttributeError"]
    /\ UNCHANGED <<sheet, pc, raw, df, origin, err, pnl, exp_df, topN, pie>>

NextCompare ==
    \/ LoadRaw
    \/ CombineColumns
    \/ SplitTransfers
    \/ FinaliseSchema
    \/ EnforceTypes
    \/ MonthlyExpenseCompare

SpecCompare == Init /\ [][NextCompare]_vars

(* ----------------------------- the pie alone -------------------------- *)
InitPie ==
    /\ sheet = <<>>
    /\ pc = "pie"
    /\ raw = <<>>
    /\ df = <<>>
    /\ origin = <<>>
    /\ err = "none"
    /\ pnl = NoPnl
    /\ exp_df \in EntryLists
    /\ topN \in 0..MaxTopN
    /\ pie = NoPie
    /\ cmp = NoCompare

(* Graph.expense_pie_topN(exp_df, template, topN), up to df_plot *)
ExpensePieTopN ==
    /\ pc = "pie"
    /\ \E order \in DescendingOrders(exp_df) : pie' = TopNPlot(exp_df, order, topN)
    /\ pc' = "plotted"
    /\ UNCHANGED <<sheet, raw, df, origin, err, pnl, exp_df, topN, cmp>>

NextPie == ExpensePieTopN

SpecPie == InitPie /\ [][NextPie]_vars

(* ====================================================================== *)
(* Claims                                                                 *)
(* ====================================================================== *)
Split == pc \in {"split", "finalised", "done"}
(* the ledger rows that derive from sheet row i, and those among them with label l *)
RowsOf(i) == {k \in 1..Len(df) : origin[k] = i}
LegsOf(i, l) == {k \in RowsOf(i) : df[k]["Nature of Record"] = Str(l)}
(* the test of _split_transfers on a label, stated without strip: some run *)
(* of blanks, the text Transfer, some run of blanks                        *)
PaddedTransfer(l) ==
    /\ l.k = "str"
    /\ \E a \in 0..Len(l.s) :
          /\ a + Len(T_Transfer) <= Len(l.s)
          /\ SubSeq(l.s, a + 1, a + Len(T_Transfer)) = T_Transfer
          /\ \A i \in (1..a) \cup ((a + Len(T_Transfer) + 1)..Len(l.s)) : l.s[i] = " "

(* C1: every raw row classified as a Transfer whose coalesced Amount is a   *)
(* number has exactly one Transfer-Out leg and one Transfer-In leg in the   *)
(* ledger, and the two Amounts sum to 0.                                    *)
C1_Conservation ==
    Split =>
      \A i \in 1..Len(raw) :
        (PaddedTransfer(raw[i]["Nature of Record"]) /\ raw[i]["Amount"].k = "num") =>
           /\ Cardinality(LegsOf(i, T_TransferOut)) = 1
           /\ Cardinality(LegsOf(i, T_TransferIn)) = 1
           /\ \A o \in LegsOf(i, T_TransferOut), n \in LegsOf(i, T_TransferIn) :
                 /\ df[o]["Amount"].k = "num"
                 /\ df[n]["Amount"].k = "num"
                 /\ df[o]["Amount"].n + df[n]["Amount"].n = 0
C1_Witness ==
    /\ pc = "done"
    /\ \E i \in 1..Len(raw) :
          /\ PaddedTransfer(raw[i]["Nature of Record"])
          /\ raw[i]["Amount"].k = "num"
          /\ raw[i]["Amount"].n # 0
          /\ LegsOf(i, T_TransferOut) # {}

(* what the splitter leaves of sheet row i: two legs, or the row itself *)
SplitInTwo(i) ==
    /\ Cardinality(RowsOf(i)) = 2
    /\ Cardinality(LegsOf(i, T_TransferOut)) = 1
    /\ Cardinality(LegsOf(i, T_TransferIn)) = 1
PassedThrough(i) ==
    /\ Cardinality(RowsOf(i)) = 1
    /\ \A k \in RowsOf(i) : df[k] = raw[i]

(* C2 (as stated): a row is split in two legs exactly when its label equals *)
(* "Transfer" ignoring letter case and surrounding whitespace; every other  *)
(* row, a null label included, passes through unchanged.                    *)
C2_CaseInsensitiveTest ==
    pc = "split" =>
      \A i \in 1..Len(raw) :
        LET l == raw[i]["Nature of Record"]
        IN  IF l.k = "str" /\ Lower(Strip(l.s)) = T_LowerCase
            THEN SplitInTwo(i)
            ELSE PassedThrough(i)
(* C2 (amended): a row is split in two legs exactly when its label equals   *)
(* "Transfer" ignoring surrounding whitespace only, letter case respected;  *)
(* every other row, a null label included, passes through unchanged.        *)
C2_StripOnlyTest ==
    pc = "split" =>
      \A i \in 1..Len(raw) :
        IF PaddedTransfer(raw[i]["Nature of Record"])
        THEN SplitInTwo(i)
        ELSE PassedThrough(i)
C2_Witness ==
    /\ pc = "split"
    /\ \E i, j \in 1..Len(raw) :
          /\ raw[i]["Nature of Record"] = Str(T_Padded)
          /\ SplitInTwo(i)
          /\ raw[j]["Nature of Record"] = Str(T_LowerCase)
          /\ PassedThrough(j)

(* C3 (as stated): whatever the cells of the sheet hold, Finance.run never  *)
(* raises, and every unparseable Amount or Timestamp is null in the ledger. *)
C3_PipelineNeverFails ==
    /\ pc # "raised"
    /\ pc = "done" =>
         \A k \in 1..Len(df) :
            /\ (sheet[origin[k]]["Timestamp"].k = "str"
                  /\ IsNull(ParseDatetime("none", sheet[origin[k]]["Timestamp"].s)))
                 => IsNull(df[k]["Timestamp"])
            /\ (raw[origin[k]]["Amount"].k = "str"
                  /\ IsNull(ParseNumber(raw[origin[k]]["Amount"].s)))
                 => IsNull(df[k]["Amount"])

(* the negation of a coalesced Amount: a null stays null *)
Negated(c) == IF c.k = "num" THEN Num(0 - c.n) ELSE c
ExpectedOut(i) ==
    [c \in LedgerCols |->
        CASE c = "Amount" -> Negated(raw[i]["Amount"])
          [] c = "Source" -> raw[i]["Account"]
          [] c = "Account" -> raw[i]["Source"]
          [] c = "Nature of Record" -> Str(T_TransferOut)
          [] OTHER -> raw[i][c]]
ExpectedIn(i) ==
    [c \in LedgerCols |->
        IF c = "Nature of Record" THEN Str(T_TransferIn) ELSE raw[i][c]]
(* a row of the splitter's output as the ledger shows it at the current stage *)
(* (the sort has put the least of the Timestamp texts first)              *)
LedgerFormat ==
    LET texts == {raw[i]["Timestamp"].s : i \in {j \in 1..Len(raw) : raw[j]["Timestamp"].k = "str"}}
    IN  IF texts = {} THEN "none"
        ELSE GuessFormat(CHOOSE a \in texts : \A b \in texts : CmpText(a, b) <= 0)
AtStage(row) == IF pc = "done" THEN EnforceRow(LedgerFormat, row) ELSE row

(* C4: a Transfer row with coalesced (Amount a, Source s, Account c) gives  *)
(* a Transfer-Out leg (-a, Source c, Account s) and a Transfer-In leg       *)
(* (a, Source s, Account c), with the row's Timestamp and Description.      *)
C4_LegFields ==
    Split =>
      \A i \in 1..Len(raw) :
        PaddedTransfer(raw[i]["Nature of Record"]) =>
           /\ SplitInTwo(i)
           /\ \A o \in LegsOf(i, T_TransferOut) : df[o] = AtStage(ExpectedOut(i))
           /\ \A n \in LegsOf(i, T_TransferIn) : df[n] = AtStage(ExpectedIn(i))
C4_Witness ==
    /\ pc = "done"
    /\ \E i \in 1..Len(raw) :
          /\ PaddedTransfer(raw[i]["Nature of Record"])
          /\ raw[i]["Amount"].k = "num" /\ raw[i]["Amount"].n # 0
          /\ raw[i]["Source"].k = "str" /\ raw[i]["Account"].k = "str"
          /\ raw[i]["Source"] # raw[i]["Account"]
          /\ \E o \in LegsOf(i, T_TransferOut) : df[o]["Source"] = raw[i]["Account"]

(* C5: the ledger has one row per raw row not classified as Transfer and    *)
(* two per raw row classified as Transfer, at the splitter and at every     *)
(* later stage.                                                             *)
C5_RowCount ==
    Split =>
      Len(df) = Cardinality({i \in 1..Len(raw) : ~PaddedTransfer(raw[i]["Nature of Record"])})
                + 2 * Cardinality({i \in 1..Len(raw) : PaddedTransfer(raw[i]["Nature of Record"])})
C5_Witness ==
    /\ pc = "done"
    /\ Len(sheet) = 2
    /\ Len(df) = 3

(* the columns of a family after the sign normaliser: Expense Amount and   *)
(* Transfer-Out Amount negated, every other column as in the sheet         *)
Normalised(i, col) ==
    IF col \in {"Expense Amount", "Transfer-Out Amount"}
    THEN Negated(sheet[i][col]) ELSE sheet[i][col]
(* v is the first non-null of the family cols in row i, or null if there is none *)
FirstNonNull(i, cols, v) ==
    \/ /\ \A j \in 1..Len(cols) : IsNull(sheet[i][cols[j]])
       /\ IsNull(v)
    \/ \E j \in 1..Len(cols) :
          /\ ~IsNull(sheet[i][cols[j]])
          /\ \A h \in 1..(j - 1) : IsNull(sheet[i][cols[h]])
          /\ v = Normalised(i, cols[j])

(* C6: each unified field of _combine_columns is the first non-null of its  *)
(* family in the order Income, Expense, Transfer, Transfer-In,              *)
(* Transfer-Out (the Amount columns as sign-normalised), null when the      *)
(* family is all null; Income Amount wins over Expense Amount.              *)
C6_CoalescingPriority ==
    pc = "combined" =>
      \A i \in 1..Len(raw) :
         /\ FirstNonNull(i, AMOUNT_COLS, raw[i]["Amount"])
         /\ FirstNonNull(i, ACCOUNT_COLS, raw[i]["Account"])
         /\ FirstNonNull(i, SOURCE_COLS, raw[i]["Source"])
         /\ FirstNonNull(i, DESC_COLS, raw[i]["Description"])
         /\ (~IsNull(sheet[i]["Income Amount"]) /\ ~IsNull(sheet[i]["Expense Amount"]))
              => raw[i]["Amount"] = sheet[i]["Income Amount"]
C6_Witness ==
    /\ pc = "combined"
    /\ \E i \in 1..Len(raw) :
          /\ ~IsNull(sheet[i]["Income Amount"])
          /\ ~IsNull(sheet[i]["Expense Amount"])
          /\ sheet[i]["Income Amount"] # Negated(sheet[i]["Expense Amount"])
          /\ raw[i]["Amount"] = sheet[i]["Income Amount"]

(* sheet row i respects the input contract for group g: its label is the   *)
(* group's, and the group's Amount column alone is populated, with a number *)
Contract(i, g) ==
    /\ sheet[i]["Nature of Record"] = Str(GroupLabel[g])
    /\ sheet[i][AMOUNT_COLS[g]].k = "num"
    /\ \A h \in (1..5) \ {g} : IsNull(sheet[i][AMOUNT_COLS[h]])

(* C7: a non-Transfer row under the input contract has canonical Amount     *)
(* -v when v sits in Expense Amount or Transfer-Out Amount and v when it    *)
(* sits in Income Amount or Transfer-In Amount; the coalesced Amount of a   *)
(* Transfer row is its Transfer Amount, not negated.                        *)
C7_SignConvention ==
    /\ pc = "done" =>
         \A k \in 1..Len(df) : \A g \in {1, 2, 4, 5} :
            Contract(origin[k], g) =>
               df[k]["Amount"] =
                  Num(IF g \in {2, 5} THEN 0 - sheet[origin[k]][AMOUNT_COLS[g]].n
                                      ELSE sheet[origin[k]][AMOUNT_COLS[g]].n)
    /\ pc = "combined" =>
         \A i \in 1..Len(raw) :
            Contract(i, 3) => raw[i]["Amount"] = sheet[i]["Transfer Amount"]
C7_Witness ==
    /\ pc = "done"
    /\ \E k, j \in 1..Len(df) :
          /\ Contract(origin[k], 5)
          /\ df[k]["Amount"].n < 0
          /\ Contract(origin[j], 1)
          /\ df[j]["Amount"].n > 0

(* the ledger rows of the month asked for, and the sum of their Amounts     *)
(* (a null Amount adds nothing)                                             *)
MonthRows ==
    { k \in 1..Len(df) :
        /\ df[k]["Timestamp"].k = "dt"
        /\ YearOf(df[k]["Timestamp"].n) = pnl.year
        /\ MonthOf(df[k]["Timestamp"].n) = pnl.month }
KeyedRows(n, a) ==
    { k \in MonthRows : df[k]["Nature of Record"] = Str(n) /\ df[k]["Account"] = Str(a) }
RECURSIVE AmountOver(_)
AmountOver(K) ==
    IF K = {} THEN 0
    ELSE LET k == CHOOSE x \in K : TRUE
         IN  (IF df[k]["Amount"].k = "num" THEN df[k]["Amount"].n ELSE 0)
             + AmountOver(K \ {k})
MonthNatures ==
    { df[k]["Nature of Record"].s : k \in {j \in MonthRows : ~IsNull(df[j]["Nature of Record"])} }
MonthAccounts ==
    { df[k]["Account"].s : k \in {j \in MonthRows : ~IsNull(df[j]["Account"])} }

(* C8 (as stated): the P&L has one entry for every combination of a Nature  *)
(* of Record and an Account that each occur in the month, valued the sum of *)
(* the matching Amounts, 0 for a combination without rows.                  *)
C8_EveryCombination ==
    pnl.asked =>
      pnl.table = { [nature |-> n, account |-> a, total |-> AmountOver(KeyedRows(n, a))] :
                      n \in MonthNatures, a \in MonthAccounts }
(* C8 (amended): the P&L has one entry for every pair (Nature of Record,    *)
(* Account) that occurs together on a row of the month, valued the sum of   *)
(* the Amounts of those rows (null Amounts add nothing); a pair without a   *)
(* row has no entry; rows outside the month or without Timestamp add        *)
(* nothing.                                                                 *)
C8_ObservedPairs ==
    pnl.asked =>
      pnl.table = { [nature |-> na[1], account |-> na[2],
                     total |-> AmountOver(KeyedRows(na[1], na[2]))] :
                      na \in { x \in MonthNatures \X MonthAccounts : KeyedRows(x[1], x[2]) # {} } }
C8_Witness ==
    /\ pnl.asked
    /\ \E e1, e2 \in pnl.table :
          /\ e1.nature = T_Income /\ e2.nature = T_Expense
          /\ e1.account # e2.account
          /\ e1.total > 0 /\ e2.total < 0
          /\ ~\E e \in pnl.table : e.nature = T_Expense /\ e.account = e1.account

(* the Sources of the entries handed to the pie, and two readings of a      *)
(* Source's value: the sum of the absolute Amounts, and the absolute value  *)
(* of the sum of the Amounts (null Amounts add nothing)                     *)
PieSources ==
    { exp_df[i]["Source"].s : i \in {j \in 1..Len(exp_df) : ~IsNull(exp_df[j]["Source"])} }
EntriesOf(src) == { i \in 1..Len(exp_df) : exp_df[i]["Source"] = Str(src) }
AmountAt(i) == IF exp_df[i]["Amount"].k = "num" THEN exp_df[i]["Amount"].n ELSE 0
RECURSIVE SumOfAbs(_)
SumOfAbs(K) ==
    IF K = {} THEN 0
    ELSE LET k == CHOOSE x \in K : TRUE
         IN  (IF AmountAt(k) < 0 THEN 0 - AmountAt(k) ELSE AmountAt(k)) + SumOfAbs(K \ {k})
RECURSIVE SumOf(_)
SumOf(K) ==
    IF K = {} THEN 0
    ELSE LET k == CHOOSE x \in K : TRUE IN AmountAt(k) + SumOf(K \ {k})
AbsOfSum(K) == IF SumOf(K) < 0 THEN 0 - SumOf(K) ELSE SumOf(K)
RECURSIVE Total(_, _)
Total(val, S) ==
    IF S = {} THEN 0
    ELSE LET s == CHOOSE x \in S : TRUE IN val[s] + Total(val, S \ {s})
(* the plot is the top topN groups by val, descending, then "Others" with   *)
(* the sum of the remaining groups exactly when that sum is positive        *)
TopNShape(val) ==
    LET kept == IF topN < Cardinality(PieSources) THEN topN ELSE Cardinality(PieSources)
        top == { pie.labels[i] : i \in 1..kept }
        rest == Total(val, PieSources \ top)
    IN  /\ Len(pie.labels) = Len(pie.values)
        /\ Len(pie.labels) >= kept
        /\ \A i \in 1..kept :
              /\ pie.labels[i] \in PieSources
              /\ pie.values[i] = val[pie.labels[i]]
        /\ \A i, j \in 1..kept : i < j =>
              /\ pie.labels[i] # pie.labels[j]
              /\ pie.values[i] >= pie.values[j]
        /\ \A s \in PieSources \ top : \A i \in 1..kept : val[s] <= pie.values[i]
        /\ IF rest > 0
           THEN /\ Len(pie.labels) = kept + 1
                /\ pie.labels[kept + 1] = T_Others
                /\ pie.values[kept + 1] = rest
           ELSE Len(pie.labels) = kept

(* C9 (as stated): each Source is valued the sum of the absolute values of  *)
(* its Amounts; the values are descending, the first N kept, then one       *)
(* "Others" entry with the sum of the rest iff that sum is positive.        *)
C9_SumOfAbsolutes ==
    pc = "plotted" => TopNShape([s \in PieSources |-> SumOfAbs(EntriesOf(s))])
(* C9 (amended): each Source is valued the absolute value of the sum of its *)
(* Amounts; the values are descending, the first N kept, then one "Others"  *)
(* entry with the sum of the rest iff that sum is positive.                 *)
C9_AbsoluteOfSum ==
    pc = "plotted" => TopNShape([s \in PieSources |-> AbsOfSum(EntriesOf(s))])
C9_Witness ==
    /\ pc = "plotted"
    /\ topN = 1
    /\ Cardinality(PieSources) = 3
    /\ Len(pie.labels) = 2
    /\ pie.labels[2] = T_Others
    /\ pie.values[1] > pie.values[2]
    /\ pie.values[2] > 1

(* C10 (as stated): every row of the returned ledger is labelled Income,    *)
(* Expense, Transfer-In or Transfer-Out.                                    *)
C10_CanonicalLabelsOnly ==
    pc = "done" =>
      \A k \in 1..Len(df) :
         /\ df[k]["Nature of Record"].k = "str"
         /\ df[k]["Nature of Record"].s \in CanonicalLabels
(* C10 (amended): every row of the returned ledger is labelled Transfer-In  *)
(* or Transfer-Out if it is a leg of a split row, and carries its raw label *)
(* unchanged otherwise; so the labels are among Income, Expense,            *)
(* Transfer-In, Transfer-Out whenever the raw labels are among those and    *)
(* Transfer; and no ledger row is labelled "Transfer", with or without      *)
(* surrounding whitespace.                                                  *)
C10_LegsOrRawLabel ==
    pc = "done" =>
      /\ \A k \in 1..Len(df) :
            IF PaddedTransfer(sheet[origin[k]]["Nature of Record"])
            THEN df[k]["Nature of Record"] \in {Str(T_TransferIn), Str(T_TransferOut)}
            ELSE df[k]["Nature of Record"] = sheet[origin[k]]["Nature of Record"]
      /\ \A k \in 1..Len(df) : ~PaddedTransfer(df[k]["Nature of Record"])
      /\ (\A i \in 1..Len(sheet) :
             \/ PaddedTransfer(sheet[i]["Nature of Record"])
             \/ sheet[i]["Nature of Record"] \in {Str(l) : l \in CanonicalLabels})
           => \A k \in 1..Len(df) :
                 /\ df[k]["Nature of Record"].k = "str"
                 /\ df[k]["Nature of Record"].s \in CanonicalLabels
C10_Witness ==
    /\ pc = "done"
    /\ \E k, j \in 1..Len(df) :
          /\ sheet[origin[k]]["Nature of Record"] = Str(T_Padded)
          /\ df[k]["Nature of Record"] = Str(T_TransferIn)
          /\ df[j]["Nature of Record"] = Str(T_LowerCase)

(* C11: in the ledger run returns, rows are in ascending order of their    *)
(* parsed Timestamp: of any two rows with non-null Timestamps the one      *)
(* placed earlier is not the later one.                                    *)
C11_ChronologicalOrder ==
    pc = "done" =>
      \A i, j \in 1..Len(df) :
        (i < j /\ ~IsNull(df[i]["Timestamp"]) /\ ~IsNull(df[j]["Timestamp"]))
          => df[i]["Timestamp"].n <= df[j]["Timestamp"].n

(* C12: for every non-empty list of periods and every N,                   *)
(* monthly_expense_compare completes on the ledger run produced, and its   *)
(* rows carry the labels YYYY-MM of the given periods, in their order.     *)
C12_CompareCompletes ==
    (cmp.called /\ cmp.periods # <<>>) =>
       /\ cmp.err = "none"
       /\ \A k \in 1..Len(cmp.rows) :
             \E i \in 1..Len(cmp.periods) : cmp.rows[k]["Period"] = PeriodLabel(cmp.periods[i])
       /\ \A k, l \in 1..Len(cmp.rows) :
             k < l => \E i, j \in 1..Len(cmp.periods) :
                        /\ i <= j
                        /\ cmp.rows[k]["Period"] = PeriodLabel(cmp.periods[i])
                        /\ cmp.rows[l]["Period"] = PeriodLabel(cmp.periods[j])

====
